---- MODULE Spec2Model ----
(***************************************************************************)
(* JagSat flight computer (src/src/jsfc.cpp, src/src/FlightData.h).        *)
(*                                                                         *)
(* The model follows main(): board initialisation, the crash check on the  *)
(* EEPROM byte at address 0, the flight-data fill, the sensor-system       *)
(* initialisation, system_health_check(), the ground-mode LED sequence and *)
(* then flight_loop() called forever.  One step of the model is one        *)
(* statement block of main() or one whole call of flight_loop().  A power  *)
(* loss may end the session at any point; only the EEPROM survives it.     *)
(***************************************************************************)
EXTENDS Integers, Sequences, FiniteSets, TLC

VARIABLES
    FLIGHT_MODE,                  \* #define FLIGHT_MODE of this build (fixed per behaviour)
    pc,                           \* position of main()
    eeprom,                       \* EEPROM byte at address 0x00 (persistent)
    inbound_data,                 \* FLIGHT_DATA::inbound_data[50]
    outbound_data,                \* FLIGHT_DATA::outbound_data[52]
    hardware_status_bitfield,     \* FLIGHT_DATA::hardware_status_bitfield (uint8_t)
    fcpu_lifecycle_state,         \* jsfc.cpp:98
    iridum_modem_ready,           \* jsfc.cpp:99
    sensor_system_ready,          \* jsfc.cpp:100
    iridium_modem_startup_time,   \* jsfc.cpp:101
    pin_iridium_modem_sleep,      \* level driven on _HW_PIN_IRIDIUM_MODEM_SLEEP
    serial,                       \* lines written to Serial by the last step
    last,                         \* the last step: operation, its pre-state and the calls it made
    samples_in_cycle,             \* sensor sampling passes since the last Sleep tick (observer)
    modem_acquired,               \* check_iridium_ready() returned true to flight_loop in this duty cycle (observer)
    probe_returned_true,          \* check_iridium_ready() returned true to flight_loop since boot (observer)
    seen,                         \* observed lifecycle transitions of flight_loop (observer)
    eeprom_reads,                 \* EEPROM.read calls since main() started (observer)
    eeprom_writes,                \* EEPROM.write calls since main() started (observer)
    bitfield_writes,              \* set_hardware_bf_bit calls since main() started (observer)
    earlier_session_wrote,        \* a session ended by a power loss had written the crash byte (observer)
    boot_trace,                   \* the steps of main() taken since it started, in order (observer)
    cycle_ticks,                  \* ticks of the current duty cycle, the Startup tick being the first (observer)
    first_poll_probe,             \* probe result of the first AcquireAndSample tick of the cycle (observer)
    tick_parity                   \* low bit of the number of flight_loop calls since main() started (observer)

vars == << FLIGHT_MODE, pc, eeprom, inbound_data, outbound_data,
           hardware_status_bitfield, fcpu_lifecycle_state, iridum_modem_ready,
           sensor_system_ready, iridium_modem_startup_time,
           pin_iridium_modem_sleep, serial, last, samples_in_cycle,
           modem_acquired, probe_returned_true, seen, eeprom_reads,
           eeprom_writes, bitfield_writes, earlier_session_wrote, boot_trace,
           cycle_ticks, first_poll_probe, tick_parity >>

(***************************************************************************)
(* Bounds of the model.                                                    *)
(***************************************************************************)
\* millis() readings are drawn from 0..MaxMillis
MaxMillis == 2
\* samples_in_cycle saturates at MaxSamples
MaxSamples == 2
\* cycle_ticks saturates at MaxCycleTicks
MaxCycleTicks == 6

(***************************************************************************)
(* Program constants.                                                      *)
(***************************************************************************)
\* "Crash byte stored at address 0, and is SET at 0xFF, CLEAR at 0x00."
CRASH_SET == 255
CRASH_CLEAR == 0
INBOUND_SIZE == 50
OUTBOUND_SIZE == 52

\* enum system_state, in the order flight_loop() visits it
STARTUP == "STARTUP"
POLL_WAIT_IRIDIUM == "POLL_WAIT_IRIDIUM"
TX_RX == "TX_RX"
LOW_POWER_SLEEP == "LOW_POWER_SLEEP"
system_state == {STARTUP, POLL_WAIT_IRIDIUM, TX_RX, LOW_POWER_SLEEP}

Byte == 0..255
\* EEPROM contents a board may hold at address 0 before a boot:
\* CLEAR, SET (also the erased value) and a value that is neither.
EepromValues == {CRASH_CLEAR, CRASH_SET, 90}
\* Byte patterns the buffers may hold when main() starts.
RamFills == {0, 165}
Millis == 0..MaxMillis

(***************************************************************************)
(* FLIGHT_DATA::set_hardware_bf_bit(bit, to): declared in FlightData.h,    *)
(* defined outside the available sources; modelled from its contract       *)
(* (sets or clears exactly bit `bit`, leaves the others).                  *)
(***************************************************************************)
Pow2(n) == 2 ^ n
BitOf(bf, bit) == (bf \div Pow2(bit)) % 2

\* variant: ORs the bit in and can never clear it
set_hardware_bf_bit_OrOnly(bf, bit, to) ==
    IF to /\ BitOf(bf, bit) = 0 THEN (bf + Pow2(bit)) % 256 ELSE bf

set_hardware_bf_bit(bf, bit, to) ==
    (bf - BitOf(bf, bit) * Pow2(bit) + (IF to THEN Pow2(bit) ELSE 0)) % 256

\* Serial.print(value, BIN): binary digits, most significant first, no leading zeros
Digit(d) == IF d = 0 THEN "0" ELSE "1"
RECURSIVE Bin(_)
Bin(n) == IF n < 2 THEN << Digit(n) >> ELSE Append(Bin(n \div 2), Digit(n % 2))

(***************************************************************************)
(* The record kept in `last`.                                              *)
(***************************************************************************)
NoStep == [ op |-> "none", from |-> STARTUP, sr0 |-> FALSE, mr0 |-> FALSE,
            probed |-> FALSE, probe |-> FALSE, sampled |-> FALSE,
            waited |-> FALSE, acq0 |-> FALSE, bf0 |-> 0, ee0 |-> 0,
            bit |-> 0, to |-> FALSE, ee_read |-> FALSE, wrote |-> FALSE,
            pin0 |-> 0, in0 |-> << >>, out0 |-> << >> ]

Step(op) == [ NoStep EXCEPT !.op = op,
                            !.from = fcpu_lifecycle_state,
                            !.sr0 = sensor_system_ready,
                            !.mr0 = iridum_modem_ready,
                            !.acq0 = modem_acquired,
                            !.bf0 = hardware_status_bitfield,
                            !.ee0 = eeprom,
                            !.pin0 = pin_iridium_modem_sleep,
                            !.in0 = inbound_data,
                            !.out0 = outbound_data ]

(***************************************************************************)
(* State of the RAM when main() is entered: the initialisers of            *)
(* jsfc.cpp:98-101; the bitfield reads zero before the health check.       *)
(***************************************************************************)
StaticInit ==
    /\ fcpu_lifecycle_state' = STARTUP
    /\ iridum_modem_ready' = FALSE
    /\ sensor_system_ready' = FALSE
    /\ iridium_modem_startup_time' = 0
    /\ hardware_status_bitfield' = 0
    /\ \E f \in RamFills : inbound_data' = [i \in 0..(INBOUND_SIZE - 1) |-> f]
    /\ \E f \in RamFills : outbound_data' = [i \in 0..(OUTBOUND_SIZE - 1) |-> f]
    /\ pin_iridium_modem_sleep' = 0
    /\ samples_in_cycle' = 0
    /\ modem_acquired' = FALSE
    /\ probe_returned_true' = FALSE
    /\ seen' = {}
    /\ eeprom_reads' = 0
    /\ eeprom_writes' = 0
    /\ bitfield_writes' = 0
    /\ boot_trace' = << >>
    /\ cycle_ticks' = 0
    /\ first_poll_probe' = "none"
    /\ tick_parity' = 0

Init ==
    /\ FLIGHT_MODE \in BOOLEAN
    /\ pc = "main"
    /\ eeprom \in EepromValues
    /\ fcpu_lifecycle_state = STARTUP
    /\ iridum_modem_ready = FALSE
    /\ sensor_system_ready = FALSE
    /\ iridium_modem_startup_time = 0
    /\ hardware_status_bitfield = 0
    /\ \E f \in RamFills : inbound_data = [i \in 0..(INBOUND_SIZE - 1) |-> f]
    /\ \E f \in RamFills : outbound_data = [i \in 0..(OUTBOUND_SIZE - 1) |-> f]
    /\ pin_iridium_modem_sleep = 0
    /\ serial = << >>
    /\ last = NoStep
    /\ samples_in_cycle = 0
    /\ modem_acquired = FALSE
    /\ probe_returned_true = FALSE
    /\ seen = {}
    /\ eeprom_reads = 0
    /\ eeprom_writes = 0
    /\ bitfield_writes = 0
    /\ earlier_session_wrote = FALSE
    /\ boot_trace = << >>
    /\ cycle_ticks = 0
    /\ first_poll_probe = "none"
    /\ tick_parity = 0

controller == << fcpu_lifecycle_state, iridum_modem_ready, sensor_system_ready,
                 iridium_modem_startup_time, pin_iridium_modem_sleep >>
observers == << samples_in_cycle, modem_acquired, probe_returned_true, seen,
               cycle_ticks, first_poll_probe, tick_parity >>
storage_observers == << eeprom_reads, eeprom_writes >>
buffers == << inbound_data, outbound_data >>

(***************************************************************************)
(* Power loss and restart: RAM and pins are re-initialised, the EEPROM     *)
(* keeps its byte, main() starts again.                                    *)
(***************************************************************************)
PowerLoss ==
    /\ pc' = "main"
    /\ StaticInit
    /\ serial' = << >>
    /\ last' = Step("reset")
    /\ earlier_session_wrote' = (earlier_session_wrote \/ eeprom_writes > 0)
    /\ UNCHANGED << FLIGHT_MODE, eeprom >>

(***************************************************************************)
(* main(), jsfc.cpp:19-71                                                  *)
(***************************************************************************)
\* init(); _com_init(); pinMode(...) x3
MainInit ==
    /\ pc = "main"
    /\ pc' = IF FLIGHT_MODE THEN "crash_check" ELSE "fill"
    /\ serial' = << >>
    /\ last' = Step("init")
    /\ boot_trace' = Append(boot_trace, "init")
    /\ UNCHANGED << FLIGHT_MODE, eeprom, buffers, hardware_status_bitfield,
                    controller, observers, storage_observers, bitfield_writes,
                    earlier_session_wrote >>

\* variant: the else branch writes CLEAR
CrashByteAfter_WritesClear(b) == IF b = CRASH_SET THEN b ELSE CRASH_CLEAR

\* variant: a dirty restart is acknowledged by clearing the byte
CrashByteAfter_ClearsOnDirty(b) == IF b = CRASH_SET THEN CRASH_CLEAR ELSE CRASH_SET

\* variant: the byte is written only when it reads CLEAR
CrashCheckWrites_OnlyClear(b) == b = CRASH_CLEAR

\* the else branch of if (EEPROM.read(0x00) == 0xFF): EEPROM.write is called
CrashCheckWrites(b) == b # CRASH_SET

\* if (EEPROM.read(0x00) == 0xFF) { } else { EEPROM.write(0x00, 0xFF); }
CrashByteAfter(b) == IF CrashCheckWrites(b) THEN CRASH_SET ELSE b

CrashCheck ==
    /\ pc = "crash_check"
    /\ FLIGHT_MODE
    /\ eeprom' = CrashByteAfter(eeprom)
    /\ pc' = "fill"
    /\ serial' = << >>
    /\ last' = [ Step("crash_check") EXCEPT !.ee_read = TRUE,
                                            !.wrote = CrashCheckWrites(eeprom) ]
    /\ eeprom_reads' = eeprom_reads + 1
    /\ eeprom_writes' = eeprom_writes + (IF CrashCheckWrites(eeprom) THEN 1 ELSE 0)
    /\ boot_trace' = Append(boot_trace, "crash_check")
    /\ UNCHANGED << FLIGHT_MODE, buffers, hardware_status_bitfield,
                    controller, observers, bitfield_writes,
                    earlier_session_wrote >>

\* fillArray(arr, arr_size, val): arr[i] = val for every i < arr_size
fillArray(arr, arr_size, val) ==
    [i \in DOMAIN arr |-> IF i < arr_size THEN val ELSE arr[i]]

\* fillArray(FLIGHT_DATA::inbound_data, sizeof(FLIGHT_DATA::inbound_data), 0);
FlightDataInit ==
    /\ pc = "fill"
    /\ inbound_data' = fillArray(inbound_data, INBOUND_SIZE, 0)
    /\ pc' = "sensor_init"
    /\ serial' = << >>
    /\ last' = Step("fill")
    /\ boot_trace' = Append(boot_trace, "fill")
    /\ UNCHANGED << FLIGHT_MODE, eeprom, outbound_data, hardware_status_bitfield,
                    controller, observers, storage_observers, bitfield_writes,
                    earlier_session_wrote >>

\* variant: the startup system test is not called
AfterSensorInit_NoHealthCheck == IF FLIGHT_MODE THEN "loop" ELSE "led"

\* system_health_check();   (jsfc.cpp:52) follows init_sensor_system()
AfterSensorInit == "health"

\* init_sensor_system();
InitSensorSystem ==
    /\ pc = "sensor_init"
    /\ pc' = AfterSensorInit
    /\ serial' = << >>
    /\ last' = Step("sensor_init")
    /\ boot_trace' = Append(boot_trace, "sensor_init")
    /\ UNCHANGED << FLIGHT_MODE, eeprom, buffers, hardware_status_bitfield,
                    controller, observers, storage_observers, bitfield_writes,
                    earlier_session_wrote >>

(***************************************************************************)
(* system_health_check(), jsfc.cpp:77-96                                   *)
(***************************************************************************)
\* variant: records the modem result in bit 1
HealthCheckBitfield_WrongBit(bf, reachable) == set_hardware_bf_bit(bf, 1, reachable)

\* FLIGHT_DATA::set_hardware_bf_bit(0, check_iridium_ready());
HealthCheckBitfield(bf, reachable) == set_hardware_bf_bit(bf, 0, reachable)

\* Serial.print(F("<$")); Serial.print(bitfield, BIN); Serial.println(F(">"));
HealthLine(bf) == << "<$" >> \o Bin(bf) \o << ">" >>

SystemHealthCheck ==
    /\ pc = "health"
    /\ \E reachable \in BOOLEAN :
         /\ hardware_status_bitfield' =
                HealthCheckBitfield(hardware_status_bitfield, reachable)
         /\ last' = [ Step("health") EXCEPT !.probed = TRUE, !.probe = reachable ]
    /\ serial' = IF FLIGHT_MODE THEN << >>
                 ELSE << HealthLine(hardware_status_bitfield') >>
    /\ pc' = IF FLIGHT_MODE THEN "loop" ELSE "led"
    /\ bitfield_writes' = bitfield_writes + 1
    /\ boot_trace' = Append(boot_trace, "health")
    /\ UNCHANGED << FLIGHT_MODE, eeprom, buffers, controller, observers,
                    storage_observers, earlier_session_wrote >>

\* #ifndef FLIGHT_MODE: five blinks of the status LED, which ends low
LedIndications ==
    /\ pc = "led"
    /\ ~FLIGHT_MODE
    /\ pc' = "loop"
    /\ serial' = << >>
    /\ last' = Step("led")
    /\ boot_trace' = Append(boot_trace, "led")
    /\ UNCHANGED << FLIGHT_MODE, eeprom, buffers, hardware_status_bitfield,
                    controller, observers, storage_observers, bitfield_writes,
                    earlier_session_wrote >>

(***************************************************************************)
(* flight_loop(), jsfc.cpp:112-187: one call is one tick.                  *)
(***************************************************************************)
Transition(from, sr0, mr0, probed, probe, next) ==
    [ from |-> from, sr0 |-> sr0, mr0 |-> mr0, probed |-> probed,
      probe |-> probe, next |-> next ]

Observe(probed, probe) ==
    seen' = seen \cup { Transition(fcpu_lifecycle_state, sensor_system_ready,
                                   iridum_modem_ready, probed, probe,
                                   fcpu_lifecycle_state') }

\* fcpu_lifecycle_state = POLL_WAIT_IRIDIUM;   (jsfc.cpp:123)
AfterStartup == POLL_WAIT_IRIDIUM

\* digitalWrite(_HW_PIN_IRIDIUM_MODEM_SLEEP, 1);   (jsfc.cpp:122)
StartupPin == 1

\* the tick counter of the duty cycle, saturating
NextCycleTick(n) == IF n < MaxCycleTicks THEN n + 1 ELSE n

\* case STARTUP
FlightLoopStartup ==
    /\ pc = "loop"
    /\ fcpu_lifecycle_state = STARTUP
    /\ serial' = << << "System in Startup..." >> >>
    /\ \E now \in Millis : iridium_modem_startup_time' = now
    /\ pin_iridium_modem_sleep' = StartupPin
    /\ fcpu_lifecycle_state' = AfterStartup
    /\ last' = Step("tick")
    /\ Observe(FALSE, FALSE)
    /\ cycle_ticks' = 1
    /\ first_poll_probe' = "none"
    /\ tick_parity' = 1 - tick_parity
    /\ UNCHANGED << FLIGHT_MODE, pc, eeprom, buffers, hardware_status_bitfield,
                    iridum_modem_ready, sensor_system_ready, samples_in_cycle,
                    modem_acquired, probe_returned_true, storage_observers, bitfield_writes,
                    earlier_session_wrote, boot_trace >>

\* variant: the sampling pass never latches the flag
SensorReadyAfter_NoLatch(sr) == sr

\* if (!sensor_system_ready) { ...; sensor_system_ready = true; }
SensorReadyAfter(sr) == IF ~sr THEN TRUE ELSE sr

\* !iridum_modem_ready && check_iridium_ready(): the probe runs only when the flag is false
ProbeInvoked(mr) == ~mr

\* variant: a true probe result is not latched
ModemReadyAfter_NoLatch(mr, probe) == mr

\* if (!iridum_modem_ready && check_iridium_ready()) iridum_modem_ready = true;
ModemReadyAfter(mr, probe) == IF ~mr /\ probe THEN TRUE ELSE mr

\* variant: leaves as soon as the sensors are ready
PollExit_SensorOnly(sr, mr) == IF sr THEN TX_RX ELSE POLL_WAIT_IRIDIUM

\* variant: a wake timestamp past the deadline ends the wait
PollExit_Deadline(sr, mr) ==
    IF sr /\ (mr \/ iridium_modem_startup_time > 0) THEN TX_RX
    ELSE POLL_WAIT_IRIDIUM

\* variant: the probe result of the tick is ignored until the next tick
PollExit_NextTick(sr, mr) ==
    IF sr /\ mr /\ iridum_modem_ready THEN TX_RX ELSE POLL_WAIT_IRIDIUM

\* if (sensor_system_ready && iridum_modem_ready) fcpu_lifecycle_state = TX_RX;
PollExit(sr, mr) == IF sr /\ mr THEN TX_RX ELSE POLL_WAIT_IRIDIUM

\* variant: the poll delay is taken out of the else branch
PollWaits_Unconditional(latched, sr) == sr

\* else { if (sensor_system_ready) delay(1200); }   (jsfc.cpp:147-149)
PollWaits(latched, sr) == ~latched /\ sr

SamplingLines ==
    << << "Sampling..." >>, << "bmp280_temp" >>, << "mpl3115a2_temp" >>,
       << "dht22_temp" >>, << "ds18b20_temp" >>, << "bme280_q" >>,
       << "bmp280_q" >>, << "mpl3115a2_q" >> >>

\* case POLL_WAIT_IRIDIUM
FlightLoopPollWait ==
    /\ pc = "loop"
    /\ fcpu_lifecycle_state = POLL_WAIT_IRIDIUM
    /\ LET sampled == ~sensor_system_ready
           probed == ProbeInvoked(iridum_modem_ready)
       IN  \E probe \in (IF probed THEN BOOLEAN ELSE {FALSE}) :
             LET sr1 == SensorReadyAfter(sensor_system_ready)
                 latched == ~iridum_modem_ready /\ probe
                 mr1 == ModemReadyAfter(iridum_modem_ready, probe)
                 waited == PollWaits(latched, sr1)
             IN  /\ sensor_system_ready' = sr1
                 /\ iridum_modem_ready' = mr1
                 /\ fcpu_lifecycle_state' = PollExit(sr1, mr1)
                 /\ serial' = (IF sampled THEN SamplingLines ELSE << >>)
                              \o (IF latched THEN << << "Iridium Modem Ready!..." >> >>
                                  ELSE << >>)
                 /\ last' = [ Step("tick") EXCEPT !.probed = probed,
                                                  !.probe = probe,
                                                  !.sampled = sampled,
                                                  !.waited = waited ]
                 /\ samples_in_cycle' =
                        IF sampled /\ samples_in_cycle < MaxSamples
                        THEN samples_in_cycle + 1 ELSE samples_in_cycle
                 /\ modem_acquired' = (modem_acquired \/ (probed /\ probe))
                 /\ probe_returned_true' = (probe_returned_true \/ (probed /\ probe))
                 /\ first_poll_probe' =
                        IF cycle_ticks = 1
                        THEN (IF probed /\ probe THEN "true" ELSE "false")
                        ELSE first_poll_probe
                 /\ Observe(probed, probe)
    /\ cycle_ticks' = NextCycleTick(cycle_ticks)
    /\ tick_parity' = 1 - tick_parity
    /\ UNCHANGED << FLIGHT_MODE, pc, eeprom, buffers, hardware_status_bitfield,
                    iridium_modem_startup_time, pin_iridium_modem_sleep,
                    storage_observers, bitfield_writes,
                    earlier_session_wrote, boot_trace >>

\* variant: goes back to STARTUP without sleeping
AfterTxRx_SkipsSleep == STARTUP

\* fcpu_lifecycle_state = LOW_POWER_SLEEP;   (jsfc.cpp:157)
AfterTxRx == LOW_POWER_SLEEP

\* variant: the exchange stores a received byte in the inbound buffer
TxRxInbound_Receives(inbound) == [inbound EXCEPT ![0] = 1]

\* case TX_RX is a println and a delay(4000): no transfer touches inbound_data
TxRxInbound(inbound) == inbound

\* case TX_RX
FlightLoopTxRx ==
    /\ pc = "loop"
    /\ fcpu_lifecycle_state = TX_RX
    /\ serial' = << << "Transmission in progress..." >> >>
    /\ inbound_data' = TxRxInbound(inbound_data)
    /\ fcpu_lifecycle_state' = AfterTxRx
    /\ last' = Step("tick")
    /\ Observe(FALSE, FALSE)
    /\ cycle_ticks' = NextCycleTick(cycle_ticks)
    /\ tick_parity' = 1 - tick_parity
    /\ UNCHANGED << FLIGHT_MODE, pc, eeprom, outbound_data,
                    hardware_status_bitfield,
                    iridum_modem_ready, sensor_system_ready,
                    iridium_modem_startup_time, pin_iridium_modem_sleep,
                    samples_in_cycle, modem_acquired, probe_returned_true,
                    first_poll_probe, storage_observers, bitfield_writes,
                    earlier_session_wrote, boot_trace >>

\* variant: the sensor flag survives the sleep
SleepSensorReady_Kept(sr) == sr

\* sensor_system_ready = false;   (jsfc.cpp:162)
SleepSensorReady(sr) == FALSE

\* variant: the modem is not put to sleep
SleepPin_LeftAsIs == pin_iridium_modem_sleep

\* digitalWrite(_HW_PIN_IRIDIUM_MODEM_SLEEP, 0);   (jsfc.cpp:163)
SleepPin == 0

\* variant: the modem flag survives the sleep
SleepModemReady_Kept(mr) == mr

\* iridum_modem_ready = false;   (jsfc.cpp:161)
SleepModemReady(mr) == FALSE

\* variant: the machine never leaves the sleep state
AfterSleep_StaysAsleep == LOW_POWER_SLEEP

\* fcpu_lifecycle_state = STARTUP;   (jsfc.cpp:164)
AfterSleep == STARTUP

\* case LOW_POWER_SLEEP
FlightLoopSleep ==
    /\ pc = "loop"
    /\ fcpu_lifecycle_state = LOW_POWER_SLEEP
    /\ serial' = << << "Transitioning to sleep mode..." >> >>
    /\ iridum_modem_ready' = SleepModemReady(iridum_modem_ready)
    /\ sensor_system_ready' = SleepSensorReady(sensor_system_ready)
    /\ pin_iridium_modem_sleep' = SleepPin
    /\ fcpu_lifecycle_state' = AfterSleep
    /\ last' = Step("tick")
    /\ samples_in_cycle' = 0
    /\ modem_acquired' = FALSE
    /\ Observe(FALSE, FALSE)
    /\ cycle_ticks' = NextCycleTick(cycle_ticks)
    /\ tick_parity' = 1 - tick_parity
    /\ UNCHANGED << FLIGHT_MODE, pc, eeprom, buffers, hardware_status_bitfield,
                    iridium_modem_startup_time, probe_returned_true,
                    first_poll_probe, storage_observers, bitfield_writes,
                    earlier_session_wrote, boot_trace >>

flight_loop ==
    \/ FlightLoopStartup
    \/ FlightLoopPollWait
    \/ FlightLoopTxRx
    \/ FlightLoopSleep

Next ==
    \/ MainInit
    \/ CrashCheck
    \/ FlightDataInit
    \/ InitSensorSystem
    \/ SystemHealthCheck
    \/ LedIndications
    \/ flight_loop
    \/ PowerLoss

Spec == Init /\ [][Next]_vars

(***************************************************************************)
(* One session without power loss, ticked fairly: main() runs its steps    *)
(* and then calls flight_loop() again and again (while (1)), and in every  *)
(* duty cycle check_iridium_ready() eventually returns true.               *)
(***************************************************************************)
MainSteps ==
    \/ MainInit
    \/ CrashCheck
    \/ FlightDataInit
    \/ InitSensorSystem
    \/ SystemHealthCheck
    \/ LedIndications

\* an AcquireAndSample tick whose probe returns true
PollAcquires == FlightLoopPollWait /\ iridum_modem_ready'

NextLive == MainSteps \/ flight_loop

SpecLive ==
    /\ Init
    /\ [][NextLive]_vars
    /\ WF_vars(MainSteps)
    /\ WF_vars(flight_loop)
    /\ WF_vars(PollAcquires)

(***************************************************************************)
(* flight_loop() ticked from any controller state (the unit scenarios of   *)
(* the design: "controller ticked with sensorReady=..., modemReady=... in  *)
(* AcquireAndSample").                                                     *)
(***************************************************************************)
\* the steps main() takes before the loop, in this build
BootSteps ==
    IF FLIGHT_MODE
    THEN << "init", "crash_check", "fill", "sensor_init", "health" >>
    ELSE << "init", "fill", "sensor_init", "health", "led" >>

InitTick ==
    /\ FLIGHT_MODE \in BOOLEAN
    /\ pc = "loop"
    /\ eeprom \in (IF FLIGHT_MODE THEN {CRASH_SET} ELSE EepromValues)
    /\ fcpu_lifecycle_state \in system_state
    /\ iridum_modem_ready \in BOOLEAN
    /\ sensor_system_ready \in BOOLEAN
    /\ iridium_modem_startup_time \in Millis
    /\ hardware_status_bitfield \in {0, 1}
    /\ inbound_data = [i \in 0..(INBOUND_SIZE - 1) |-> 0]
    /\ \E f \in RamFills : outbound_data = [i \in 0..(OUTBOUND_SIZE - 1) |-> f]
    /\ pin_iridium_modem_sleep \in {0, 1}
    /\ serial = << >>
    /\ last = NoStep
    /\ samples_in_cycle = (IF sensor_system_ready THEN 1 ELSE 0)
    /\ modem_acquired = iridum_modem_ready
    /\ probe_returned_true = iridum_modem_ready
    /\ seen = {}
    /\ eeprom_reads = (IF FLIGHT_MODE THEN 1 ELSE 0)
    /\ eeprom_writes = 0
    /\ bitfield_writes = 1
    /\ earlier_session_wrote = FLIGHT_MODE
    /\ boot_trace = BootSteps
    /\ cycle_ticks = 0
    /\ first_poll_probe = "none"
    /\ tick_parity = 0

NextTick == flight_loop

SpecTick == InitTick /\ [][NextTick]_vars

(***************************************************************************)
(* set_hardware_bf_bit called on any bitfield value.                       *)
(***************************************************************************)
BitIndex == 0..7

InitBF ==
       /\ FLIGHT_MODE = TRUE
       /\ pc = "set_bit"
       /\ eeprom = CRASH_SET
       /\ fcpu_lifecycle_state = STARTUP
       /\ iridum_modem_ready = FALSE
       /\ sensor_system_ready = FALSE
       /\ iridium_modem_startup_time = 0
       /\ hardware_status_bitfield \in Byte
       /\ inbound_data = [i \in 0..(INBOUND_SIZE - 1) |-> 0]
       /\ outbound_data = [i \in 0..(OUTBOUND_SIZE - 1) |-> 0]
       /\ pin_iridium_modem_sleep = 0
       /\ serial = << >>
       /\ last = NoStep
       /\ samples_in_cycle = 0
       /\ modem_acquired = FALSE
       /\ probe_returned_true = FALSE
       /\ seen = {}
       /\ eeprom_reads = 0
       /\ eeprom_writes = 0
       /\ bitfield_writes = 0
       /\ earlier_session_wrote = FALSE
       /\ boot_trace = << >>
       /\ cycle_ticks = 0
       /\ first_poll_probe = "none"
       /\ tick_parity = 0

SetHardwareBfBit ==
    /\ pc = "set_bit"
    /\ \E bit \in BitIndex, to \in BOOLEAN :
         /\ hardware_status_bitfield' =
                set_hardware_bf_bit(hardware_status_bitfield, bit, to)
         /\ last' = [ Step("set_bit") EXCEPT !.bit = bit, !.to = to ]
    /\ UNCHANGED << FLIGHT_MODE, pc, eeprom, buffers, controller, serial,
                    observers, storage_observers, bitfield_writes,
                    earlier_session_wrote, boot_trace >>

NextBF == SetHardwareBfBit

SpecBF == InitBF /\ [][NextBF]_vars

(***************************************************************************)
(* Properties.                                                             *)
(***************************************************************************)
Tick == last.op = "tick"

\* the cyclic order Startup -> AcquireAndSample -> TransmitReceive -> Sleep -> Startup
CyclicSuccessor(s) ==
    CASE s = STARTUP -> POLL_WAIT_IRIDIUM
      [] s = POLL_WAIT_IRIDIUM -> TX_RX
      [] s = TX_RX -> LOW_POWER_SLEEP
      [] s = LOW_POWER_SLEEP -> STARTUP

\* C1: the first tick starts in Startup; every tick leaves the lifecycle state
\* unchanged or moves it to its cyclic successor; ticks in Startup,
\* TransmitReceive and Sleep always move on, so only AcquireAndSample can be
\* the state of two consecutive ticks.
C1_CyclicTransitions ==
    /\ (pc = "loop" /\ ~Tick) => fcpu_lifecycle_state = STARTUP
    /\ Tick => /\ fcpu_lifecycle_state \in {last.from, CyclicSuccessor(last.from)}
               /\ last.from # POLL_WAIT_IRIDIUM =>
                      fcpu_lifecycle_state = CyclicSuccessor(last.from)

\* a duty cycle that repeated AcquireAndSample has just completed
C1_Witness ==
    /\ Tick
    /\ last.from = LOW_POWER_SLEEP
    /\ fcpu_lifecycle_state = STARTUP
    /\ \E t \in seen : t.from = POLL_WAIT_IRIDIUM /\ t.next = POLL_WAIT_IRIDIUM
    /\ \E t \in seen : t.from = POLL_WAIT_IRIDIUM /\ t.next = TX_RX

\* C2: a tick executed in AcquireAndSample ends in TransmitReceive iff both
\* readiness flags are true at the end of the tick, and otherwise stays in
\* AcquireAndSample; a tick started there with both flags already true moves
\* to TransmitReceive on that tick.
C2_PollExitIffBothReady ==
    (Tick /\ last.from = POLL_WAIT_IRIDIUM) =>
        /\ fcpu_lifecycle_state = TX_RX
              <=> (sensor_system_ready /\ iridum_modem_ready)
        /\ fcpu_lifecycle_state # TX_RX => fcpu_lifecycle_state = POLL_WAIT_IRIDIUM
        /\ (last.sr0 /\ last.mr0) => fcpu_lifecycle_state = TX_RX

\* Scenario D: ticked in AcquireAndSample with both flags true
C2_Witness ==
    /\ Tick
    /\ last.from = POLL_WAIT_IRIDIUM
    /\ last.sr0 /\ last.mr0
    /\ fcpu_lifecycle_state = TX_RX

\* C3: the tick after Startup finds both flags false; the AcquireAndSample tick
\* that starts with both flags false samples the sensors, latches
\* sensor_system_ready whatever the probe returns, and probes the modem; on a
\* false probe it stays in AcquireAndSample with the modem flag false.  A
\* later AcquireAndSample tick does not sample, so the sensors are sampled
\* exactly once per duty cycle.
C3_SampleOncePerCycle ==
    /\ (Tick /\ last.from = STARTUP) =>
           ~sensor_system_ready /\ ~iridum_modem_ready
    /\ (Tick /\ last.from = POLL_WAIT_IRIDIUM /\ ~last.sr0 /\ ~last.mr0) =>
           /\ last.sampled
           /\ sensor_system_ready
           /\ last.probed
           /\ ~last.probe => /\ fcpu_lifecycle_state = POLL_WAIT_IRIDIUM
                             /\ ~iridum_modem_ready
    /\ (Tick /\ last.from = POLL_WAIT_IRIDIUM /\ last.sr0) => ~last.sampled
    /\ (Tick /\ last.from # POLL_WAIT_IRIDIUM) => ~last.sampled
    /\ samples_in_cycle <= 1
    /\ (Tick /\ last.from \in {POLL_WAIT_IRIDIUM, TX_RX}) => samples_in_cycle = 1

\* a first pass whose probe failed, followed by a later pass that did not sample
C3_Witness ==
    /\ Tick
    /\ last.from = POLL_WAIT_IRIDIUM
    /\ last.sr0
    /\ ~last.sampled
    /\ samples_in_cycle = 1
    /\ \E t \in seen : /\ t.from = POLL_WAIT_IRIDIUM
                       /\ ~t.sr0 /\ ~t.mr0
                       /\ t.probed /\ ~t.probe
                       /\ t.next = POLL_WAIT_IRIDIUM

\* C4: whenever a tick is about to run in Startup both readiness flags are
\* false, and a step of the running program turns a readiness flag from true
\* to false only if it is the Sleep tick.  (A power loss restarts the program
\* with freshly initialised flags; it is not a step of the running program.)
C4_FlagsFalseAtStartup ==
    /\ (pc = "loop" /\ fcpu_lifecycle_state = STARTUP) =>
           ~sensor_system_ready /\ ~iridum_modem_ready
    /\ ( /\ last.op # "reset"
         /\ \/ last.sr0 /\ ~sensor_system_ready
            \/ last.mr0 /\ ~iridum_modem_ready )
       => (Tick /\ last.from = LOW_POWER_SLEEP)

\* Startup entered again after a completed duty cycle
C4_Witness ==
    /\ pc = "loop"
    /\ Tick
    /\ last.from = LOW_POWER_SLEEP
    /\ last.sr0 /\ last.mr0
    /\ fcpu_lifecycle_state = STARTUP
    /\ ~sensor_system_ready /\ ~iridum_modem_ready

\* C5: a tick that starts after check_iridium_ready() has returned true to
\* flight_loop in the current duty cycle does not invoke the probe.
C5_NoProbeAfterAcquired ==
    (Tick /\ last.acq0) => ~last.probed

\* a tick run after the probe returned true in this cycle
C5_Witness ==
    /\ Tick
    /\ last.acq0
    /\ ~last.probed
    /\ \E t \in seen : t.probed /\ t.probe

\* C6: while no probe has returned true, the machine is in Startup or
\* AcquireAndSample with the modem flag false, and a tick executed in
\* AcquireAndSample stays there, whatever the wake timestamp.
C6_NeverReadyHoldsPoll ==
    ~probe_returned_true =>
        /\ pc = "loop" =>
              /\ fcpu_lifecycle_state \in {STARTUP, POLL_WAIT_IRIDIUM}
              /\ ~iridum_modem_ready
        /\ (Tick /\ last.from = POLL_WAIT_IRIDIUM) =>
              fcpu_lifecycle_state = POLL_WAIT_IRIDIUM

\* a repeated AcquireAndSample tick with a failed probe and a non-zero timestamp
C6_Witness ==
    /\ ~probe_returned_true
    /\ Tick
    /\ last.from = POLL_WAIT_IRIDIUM
    /\ last.sr0
    /\ last.probed /\ ~last.probe
    /\ iridium_modem_startup_time = MaxMillis
    /\ fcpu_lifecycle_state = POLL_WAIT_IRIDIUM

\* C7 as stated: the state after a tick is a function of the lifecycle state
\* and the two readiness flags at the start of the tick alone.
C7_FunctionOfStateAndFlags ==
    \A a, b \in seen :
        (a.from = b.from /\ a.sr0 = b.sr0 /\ a.mr0 = b.mr0) => a.next = b.next

\* the transition of flight_loop, given the result of the probe it invokes
C7_NextState(from, sr0, mr0, probe) ==
    CASE from = STARTUP -> POLL_WAIT_IRIDIUM
      [] from = POLL_WAIT_IRIDIUM ->
            IF mr0 \/ probe THEN TX_RX ELSE POLL_WAIT_IRIDIUM
      [] from = TX_RX -> LOW_POWER_SLEEP
      [] from = LOW_POWER_SLEEP -> STARTUP

\* C7 (amended): for every lifecycle state and every pair of readiness flags
\* a tick is defined, and the state after it is a function of the lifecycle
\* state, the two flags and the result of the modem probe invoked during the
\* tick (the probe is invoked exactly when the tick runs in AcquireAndSample
\* with the modem flag false).
C7_TotalAndDeterministicGivenProbe ==
    /\ pc = "loop" => ENABLED flight_loop
    /\ \A a, b \in seen :
           ( /\ a.from = b.from /\ a.sr0 = b.sr0 /\ a.mr0 = b.mr0
             /\ a.probed = b.probed /\ a.probe = b.probe ) => a.next = b.next
    /\ Tick => /\ last.probed <=> (last.from = POLL_WAIT_IRIDIUM /\ ~last.mr0)
               /\ fcpu_lifecycle_state =
                      C7_NextState(last.from, last.sr0, last.mr0,
                                   last.probed /\ last.probe)

\* the same start of a tick observed with both probe results
C7_Witness ==
    /\ \E t \in seen : /\ t.from = POLL_WAIT_IRIDIUM /\ ~t.sr0 /\ ~t.mr0
                       /\ t.probed /\ ~t.probe /\ t.next = POLL_WAIT_IRIDIUM
    /\ \E t \in seen : /\ t.from = POLL_WAIT_IRIDIUM /\ ~t.sr0 /\ ~t.mr0
                       /\ t.probed /\ t.probe /\ t.next = TX_RX

HealthChecked == last.op = "health"

\* C8: after system_health_check bit 0 of the bitfield equals the result of
\* the modem probe and bits 1..7 are as before; from an all-zero bitfield the
\* bitfield reads 0 (unreachable) or 1 (reachable); in both cases main() goes
\* on towards the flight loop.
C8_HealthCheckBit0 ==
    HealthChecked =>
        /\ BitOf(hardware_status_bitfield, 0) = (IF last.probe THEN 1 ELSE 0)
        /\ \A j \in 1..7 :
               BitOf(hardware_status_bitfield, j) = BitOf(last.bf0, j)
        /\ last.bf0 = 0 =>
               hardware_status_bitfield = (IF last.probe THEN 1 ELSE 0)
        /\ pc = (IF FLIGHT_MODE THEN "loop" ELSE "led")

\* Scenario B: boot with the modem reachable
C8_Witness ==
    /\ HealthChecked
    /\ last.bf0 = 0
    /\ last.probe
    /\ hardware_status_bitfield = 1
    /\ pc = "loop"

\* C9: after set_hardware_bf_bit(i, v) bit i of the bitfield equals v, the
\* other seven bits are as before, the value is still 8 bits wide, and the
\* same call applied again leaves the bitfield as it is.
C9_SetBitLocalIdempotent ==
    last.op = "set_bit" =>
        /\ hardware_status_bitfield \in Byte
        /\ BitOf(hardware_status_bitfield, last.bit) = (IF last.to THEN 1 ELSE 0)
        /\ \A j \in BitIndex \ {last.bit} :
               BitOf(hardware_status_bitfield, j) = BitOf(last.bf0, j)
        /\ set_hardware_bf_bit(hardware_status_bitfield, last.bit, last.to)
               = hardware_status_bitfield

\* a set bit cleared in a bitfield that has other bits set
C9_Witness ==
    /\ last.op = "set_bit"
    /\ last.bf0 = 255
    /\ last.bit = 7
    /\ ~last.to
    /\ hardware_status_bitfield = 127

AfterCrashCheck == {"fill", "sensor_init", "health", "led", "loop"}

\* C10: in flight configuration, once the crash check has run the byte at
\* address 0 is SET whatever it held before; every step that changes the byte
\* writes SET (never CLEAR), and no step, power loss included, takes the byte
\* from SET to another value.
C10_CrashFlagSetAndNeverCleared ==
    /\ (FLIGHT_MODE /\ pc \in AfterCrashCheck) => eeprom = CRASH_SET
    /\ last.op # "none" =>
           /\ eeprom # last.ee0 => eeprom = CRASH_SET
           /\ last.ee0 = CRASH_SET => eeprom = CRASH_SET

\* a flight boot that found a byte that is neither SET nor CLEAR
C10_Witness ==
    /\ FLIGHT_MODE
    /\ last.op = "crash_check"
    /\ last.ee0 \notin {CRASH_SET, CRASH_CLEAR}
    /\ eeprom = CRASH_SET

\* C11: a crash check that runs after an earlier session wrote the byte and
\* was ended by a power loss reads SET; that branch writes nothing and leaves
\* the byte, the lifecycle state, both readiness flags and the bitfield as
\* they were; like the clean branch it continues with the flight-data fill.
C11_DirtyRestartInert ==
    /\ (last.op = "crash_check" /\ earlier_session_wrote) =>
           last.ee0 = CRASH_SET
    /\ (last.op = "crash_check" /\ last.ee0 = CRASH_SET) =>
           /\ ~last.wrote
           /\ eeprom = last.ee0
           /\ eeprom_writes = 0
    /\ last.op = "crash_check" =>
           /\ last.ee_read
           /\ fcpu_lifecycle_state = last.from
           /\ sensor_system_ready = last.sr0
           /\ iridum_modem_ready = last.mr0
           /\ hardware_status_bitfield = last.bf0
           /\ pc = "fill"
           /\ eeprom = CRASH_SET

\* the boot after a power loss takes the dirty-restart branch
C11_Witness ==
    /\ last.op = "crash_check"
    /\ earlier_session_wrote
    /\ last.ee0 = CRASH_SET
    /\ ~last.wrote
    /\ pc = "fill"

\* C12: in flight configuration no step of the program writes a line to the
\* debug channel.
C12_NoDebugOutputInFlight ==
    FLIGHT_MODE => serial = << >>

Occurrences(step) == { i \in DOMAIN boot_trace : boot_trace[i] = step }
Before(a, b) ==
    \A i \in Occurrences(a), j \in Occurrences(b) : i < j

\* C13: in every boot the crash check (present in flight builds) precedes the
\* flight-data fill, the fill precedes the health check, the health check has
\* run exactly once before the first tick, every step runs at most once, and
\* once the loop is entered main() stays in it with a tick always possible.
C13_BootOrder ==
    /\ Before("crash_check", "fill")
    /\ Before("fill", "health")
    /\ \A i \in DOMAIN boot_trace : Cardinality(Occurrences(boot_trace[i])) = 1
    /\ Occurrences("fill") # {} =>
           (FLIGHT_MODE <=> Occurrences("crash_check") # {})
    /\ Occurrences("health") # {} => Occurrences("fill") # {}
    /\ pc = "loop" => /\ Cardinality(Occurrences("health")) = 1
                      /\ boot_trace = BootSteps
                      /\ ENABLED flight_loop
    /\ Tick => pc = "loop"

\* ticks running after a complete flight boot
C13_Witness ==
    /\ FLIGHT_MODE
    /\ Tick
    /\ last.from = TX_RX
    /\ boot_trace = << "init", "crash_check", "fill", "sensor_init", "health" >>

\* C14: a tick changes neither the hardware status bitfield, nor the crash
\* byte, nor the inbound or outbound buffer; the bitfield and the crash byte
\* are written at most once per boot, by the health check and the crash check,
\* and the bitfield has been written exactly once when the loop starts.
C14_TicksLeaveRegistryFlagAndBuffers ==
    /\ Tick => /\ hardware_status_bitfield = last.bf0
               /\ eeprom = last.ee0
               /\ ~last.wrote
               /\ inbound_data = last.in0
               /\ outbound_data = last.out0
    /\ eeprom_writes <= 1
    /\ bitfield_writes <= 1
    /\ pc = "loop" => bitfield_writes = 1
    /\ ( /\ last.op \notin {"none", "reset"}
         /\ \/ hardware_status_bitfield # last.bf0
            \/ eeprom # last.ee0 )
       => last.op \in {"crash_check", "health"}

\* a TransmitReceive tick has run in a flight session that wrote both
C14_Witness ==
    /\ Tick
    /\ last.from = TX_RX
    /\ eeprom_writes = 1
    /\ bitfield_writes = 1
    /\ hardware_status_bitfield = 1
    /\ inbound_data = last.in0

\* C15: when the loop is entered every byte of inbound_data and every byte of
\* outbound_data is 0, whatever the buffers held when main() started.
C15_BothBuffersZeroAtFirstTick ==
    pc = "loop" =>
        /\ \A i \in DOMAIN inbound_data : inbound_data[i] = 0
        /\ \A i \in DOMAIN outbound_data : outbound_data[i] = 0

SensorLatchedThisTick == ~last.sr0 /\ sensor_system_ready
ModemLatchedThisTick == ~last.mr0 /\ iridum_modem_ready

\* C16 as stated: a tick in AcquireAndSample performs the poll-interval wait
\* only if neither readiness flag was latched on that tick.
C16_WaitOnlyIfNothingLatched ==
    (Tick /\ last.from = POLL_WAIT_IRIDIUM /\ last.waited) =>
        (~SensorLatchedThisTick /\ ~ModemLatchedThisTick)

\* C16 (amended): a tick in AcquireAndSample performs the poll-interval wait
\* exactly when the modem flag was not latched on that tick; the first pass,
\* which latches the sensor flag, waits as well when its probe fails.
C16_WaitIffModemNotLatched ==
    (Tick /\ last.from = POLL_WAIT_IRIDIUM) =>
        /\ last.waited <=> ~ModemLatchedThisTick
        /\ (SensorLatchedThisTick /\ ~last.probe) => last.waited

\* the first pass with a failed probe: sensor flag latched, wait performed
C16_Witness ==
    /\ Tick
    /\ last.from = POLL_WAIT_IRIDIUM
    /\ SensorLatchedThisTick
    /\ last.probed /\ ~last.probe
    /\ last.waited

\* C17: the modem sleep line is high at the start of every tick in
\* AcquireAndSample or TransmitReceive and low at the start of a Startup tick
\* that follows a Sleep tick; the Startup tick drives it high, the Sleep tick
\* drives it low, and no other step of the running program changes it.
C17_ModemLineFollowsCycle ==
    /\ (pc = "loop" /\ fcpu_lifecycle_state \in {POLL_WAIT_IRIDIUM, TX_RX}) =>
           pin_iridium_modem_sleep = 1
    /\ (Tick /\ last.from = STARTUP) => pin_iridium_modem_sleep = 1
    /\ (Tick /\ last.from = LOW_POWER_SLEEP) =>
           /\ fcpu_lifecycle_state = STARTUP
           /\ pin_iridium_modem_sleep = 0
    /\ ( /\ last.op \notin {"none", "reset"}
         /\ pin_iridium_modem_sleep # last.pin0 )
       => (Tick /\ last.from \in {STARTUP, LOW_POWER_SLEEP})

\* the Sleep tick has taken the line from high to low
C17_Witness ==
    /\ Tick
    /\ last.from = LOW_POWER_SLEEP
    /\ last.pin0 = 1
    /\ pin_iridium_modem_sleep = 0
    /\ fcpu_lifecycle_state = STARTUP

InState(st) == pc = "loop" /\ fcpu_lifecycle_state = st
CycleCompleted == Tick /\ last.from = LOW_POWER_SLEEP

\* C18: a tick is always possible once the loop runs; under fair ticking with
\* a probe that eventually returns true in every duty cycle, each of the four
\* lifecycle states is visited infinitely often and every duty cycle that has
\* started completes; a cycle whose first AcquireAndSample tick gets a true
\* probe completes in exactly four ticks.
C18_NoTerminalState ==
    /\ [](pc = "loop" => ENABLED flight_loop)
    /\ []<>InState(STARTUP)
    /\ []<>InState(POLL_WAIT_IRIDIUM)
    /\ []<>InState(TX_RX)
    /\ []<>InState(LOW_POWER_SLEEP)
    /\ InState(POLL_WAIT_IRIDIUM) ~> CycleCompleted
    /\ []((CycleCompleted /\ first_poll_probe = "true") => cycle_ticks = 4)
    /\ []((CycleCompleted /\ first_poll_probe = "false") => cycle_ticks > 4)

\* a duty cycle completed in four ticks
C18_Witness ==
    /\ CycleCompleted
    /\ first_poll_probe = "true"
    /\ cycle_ticks = 4
    /\ fcpu_lifecycle_state = STARTUP

\* C19: a boot calls EEPROM.write at most once; the crash check, which only
\* flight builds contain, reads the byte and writes exactly when the byte read
\* is not SET (CLEAR or any other value); no other step reads or writes, so a
\* flight boot that finds SET writes nothing and a ground boot neither reads
\* nor writes.
C19_WriteIffFlightAndNotSet ==
    /\ eeprom_writes <= 1
    /\ eeprom_reads <= 1
    /\ last.op = "crash_check" =>
           /\ FLIGHT_MODE
           /\ last.ee_read
           /\ last.wrote <=> last.ee0 # CRASH_SET
           /\ eeprom_writes = (IF last.ee0 # CRASH_SET THEN 1 ELSE 0)
    /\ last.op # "crash_check" => (~last.ee_read /\ ~last.wrote)
    /\ (FLIGHT_MODE /\ pc \in AfterCrashCheck) => eeprom_reads = 1
    /\ ~FLIGHT_MODE => /\ eeprom_reads = 0
                       /\ eeprom_writes = 0
                       /\ last.op # "none" => eeprom = last.ee0

\* a flight boot that read a byte that is neither SET nor CLEAR and wrote
C19_Witness ==
    /\ FLIGHT_MODE
    /\ last.op = "crash_check"
    /\ last.ee0 = 90
    /\ last.wrote
    /\ eeprom_writes = 1
    /\ eeprom_reads = 1

\* C20: between two ticks, Startup goes with both flags false,
\* AcquireAndSample with the modem flag false, TransmitReceive and Sleep with
\* both flags true; so the modem flag implies the sensor flag and no tick
\* starts in AcquireAndSample with both flags true.
C20_StateFlagConsistency ==
    /\ fcpu_lifecycle_state = STARTUP =>
           (~sensor_system_ready /\ ~iridum_modem_ready)
    /\ fcpu_lifecycle_state = POLL_WAIT_IRIDIUM => ~iridum_modem_ready
    /\ fcpu_lifecycle_state \in {TX_RX, LOW_POWER_SLEEP} =>
           (sensor_system_ready /\ iridum_modem_ready)
    /\ iridum_modem_ready => sensor_system_ready
    /\ ~( /\ pc = "loop"
          /\ fcpu_lifecycle_state = POLL_WAIT_IRIDIUM
          /\ sensor_system_ready /\ iridum_modem_ready )

\* the boundary after the TransmitReceive tick
C20_Witness ==
    /\ pc = "loop"
    /\ Tick
    /\ last.from = TX_RX
    /\ fcpu_lifecycle_state = LOW_POWER_SLEEP
    /\ sensor_system_ready /\ iridum_modem_ready

====
